---- MODULE Spec2Model ----
(***************************************************************************)
(* Model of bot.py: a Telegram bot that takes magnet links from text       *)
(* messages, offers a keyboard of download directories and, on the         *)
(* callback query of a button, adds the torrent to Transmission.           *)
(*                                                                         *)
(* Strings the code computes on (message texts, callback data, paths,      *)
(* magnet links) are sequences of one-character strings, so that           *)
(* startswith, replace and the regular expression are computed as Python   *)
(* computes them.  None and the empty string are both <<>> (both falsy).   *)
(*                                                                         *)
(* A handler is a coroutine: it runs atomically between two awaits.  A     *)
(* task's pc names the await it is suspended at.  Calls of the Telegram    *)
(* API (reply_text, answer, edit_message_text) are modelled as returning;  *)
(* the RPCs to the Transmission daemon succeed or raise.  SpecServe adds   *)
(* the case that an exception leaves process_update at such an await.      *)
(*                                                                         *)
(* Specifications:                                                         *)
(*   SpecPoll   long-poll mode, one update at a time                       *)
(*   SpecPush   push mode, the handlers of the requests interleave         *)
(*   SpecServe  push mode with commands, GET requests and exceptions       *)
(*   SpecLife   main() from its start to its return, in both modes         *)
(*   SpecOps    the gateway, the payload and the link extractor, called    *)
(*              on their own                                               *)
(***************************************************************************)
EXTENDS Naturals, Sequences, FiniteSets

\* ------------------------------------------------------------------ bounds
\* Updates (or webhook requests) delivered in one run.
MaxUpdates == 3
\* Webhook requests being processed at the same time (push mode).
MaxInflight == 2
\* The user activates one of the first MaxPick buttons of a keyboard.
MaxPick == 2
\* Pieces a destination path is put together from.
MaxParts == 3
\* Whitespace-separated words of a text given to the link extractor.
MaxWords == 3

\* ----------------------------------------------------------------- strings
NoLink == <<>>
Whitespace == {" ", "\n", "\t"}

SubStr(s, i, j) == [k \in 1..(j - i + 1) |-> s[i + k - 1]]

\* str.startswith
StartsWith(s, p) ==
    /\ Len(s) >= Len(p)
    /\ \A k \in 1..Len(p) : s[k] = p[k]

\* p occurs in s at position i
OccursAt(s, p, i) ==
    /\ i + Len(p) - 1 <= Len(s)
    /\ \A k \in 1..Len(p) : s[i + k - 1] = p[k]

\* str.replace(old, new): every non-overlapping occurrence, left to right
RECURSIVE ReplaceFrom(_, _, _, _)
ReplaceFrom(s, old, new, i) ==
    IF i > Len(s) THEN <<>>
    ELSE IF OccursAt(s, old, i)
         THEN new \o ReplaceFrom(s, old, new, i + Len(old))
         ELSE <<s[i]>> \o ReplaceFrom(s, old, new, i + 1)

Replace(s, old, new) == ReplaceFrom(s, old, new, 1)

\* ---------------------------------------------------- program constants
DownloadPrefix == <<"d","o","w","n","l","o","a","d",":">>
MagnetPrefix == <<"m","a","g","n","e","t",":","?">>

\* DEFAULT_DOWNLOAD_DIRS, in the insertion order of the dict.  The labels
\* stand for the emoji labels of the source.
DEFAULT_DOWNLOAD_DIRS == <<
    [label |-> "Movies",
     path |-> <<"/","d","o","w","n","l","o","a","d","s","/","c","o","m","p","l","e","t","e","/","m","o","v","i","e","s">>],
    [label |-> "TV Shows",
     path |-> <<"/","d","o","w","n","l","o","a","d","s","/","c","o","m","p","l","e","t","e","/","t","v","s","e","r","i","e","s">>],
    [label |-> "Books",
     path |-> <<"/","d","o","w","n","l","o","a","d","s","/","c","o","m","p","l","e","t","e","/","b","o","o","k","s">>],
    [label |-> "Games",
     path |-> <<"/","d","o","w","n","l","o","a","d","s","/","c","o","m","p","l","e","t","e","/","g","a","m","e","s">>],
    [label |-> "Other",
     path |-> <<"/","d","o","w","n","l","o","a","d","s","/","c","o","m","p","l","e","t","e","/","s","o","f","t">>],
    [label |-> "Courses",
     path |-> <<"/","d","o","w","n","l","o","a","d","s","/","c","o","m","p","l","e","t","e","/","c","o","u","r","s","e","s">>]
  >>

\* ------------------------------------------------------------ link extractor
\* End of the run of non-whitespace characters that starts at i.
RECURSIVE TokenEnd(_, _)
TokenEnd(s, i) ==
    IF i + 1 <= Len(s) /\ s[i + 1] \notin Whitespace
    THEN TokenEnd(s, i + 1)
    ELSE i

\* MAGNET_PATTERN.findall from position i: magnet:\?[^\s]+ , greedy,
\* non-overlapping, left to right.
RECURSIVE FindAllFrom(_, _)
FindAllFrom(s, i) ==
    IF i > Len(s) THEN <<>>
    ELSE IF /\ OccursAt(s, MagnetPrefix, i)
            /\ i + Len(MagnetPrefix) <= Len(s)
            /\ s[i + Len(MagnetPrefix)] \notin Whitespace
         THEN LET e == TokenEnd(s, i + Len(MagnetPrefix))
              IN  <<SubStr(s, i, e)>> \o FindAllFrom(s, e + 1)
         ELSE FindAllFrom(s, i + 1)

\* The pattern with * for +: "magnet:?" alone is a link.
RECURSIVE FindAllStarFrom(_, _)
FindAllStarFrom(s, i) ==
    IF i > Len(s) THEN <<>>
    ELSE IF OccursAt(s, MagnetPrefix, i)
         THEN LET e == TokenEnd(s, i + Len(MagnetPrefix) - 1)
              IN  <<SubStr(s, i, e)>> \o FindAllStarFrom(s, e + 1)
         ELSE FindAllStarFrom(s, i + 1)

extract_magnet_links_star(message_text) == FindAllStarFrom(message_text, 1)

\* The links without their repetitions, the first of each kept.
RECURSIVE Distinct(_)
Distinct(q) ==
    IF q = <<>> THEN <<>>
    ELSE LET front == Distinct(SubSeq(q, 1, Len(q) - 1))
         IN  IF \E k \in 1..(Len(q) - 1) : q[k] = q[Len(q)]
             THEN front
             ELSE Append(front, q[Len(q)])

extract_magnet_links_distinct(message_text) == Distinct(FindAllFrom(message_text, 1))

extract_magnet_links(message_text) == FindAllFrom(message_text, 1)

\* ------------------------------------------------------------------ inputs
Users == {"u1", "u2"}

LinkA == MagnetPrefix \o <<"a">>
LinkB == MagnetPrefix \o <<"b">>

\* Message texts: no link ("magnet:?" alone is none); one link after a
\* word; two links, B before A.
TextNone == <<"h","i"," ">> \o MagnetPrefix
TextA == <<"g","e","t"," ">> \o LinkA
TextBA == LinkB \o <<" ">> \o LinkA \o <<"\n">>
Texts == {TextNone, TextA, TextBA}

\* The magnet links of each of these texts, read off the text.
LinksOf(text) ==
    CASE text = TextNone -> <<>>
      [] text = TextA -> <<LinkA>>
      [] text = TextBA -> <<LinkB, LinkA>>

\* The payload names the "choose destination" action.
ValidPayload(data) == Len(data) >= 9 /\ SubStr(data, 1, 9) = DownloadPrefix

\* Callback data no keyboard of this program carries.
DataCancel == <<"c","a","n","c","e","l">>
DataTmp == DownloadPrefix \o <<"/","t","m","p">>
ForgedData == {DataCancel, DataTmp}

\* WEBHOOK_SECRET_TOKEN and the X-Telegram-Bot-Api-Secret-Token header;
\* <<>> is an unset variable, an absent header.
SecretS == <<"s","3","c","r","3","t">>
SecretX == <<"x">>
Secrets == {<<>>, SecretS}
Headers == {<<>>, SecretS, SecretX}

\* ------------------------------------------------------------------- state
VARIABLES
    mode,         \* "poll" or "push": WEBHOOK_MODE
    secret,       \* WEBHOOK_SECRET_TOKEN
    client,       \* transmission_client.client is not None
    user_data,    \* context.user_data[...]['magnet_link'], per user
    tasks,        \* the handler coroutines in flight
    offers,       \* the keyboards sent: the user, the link of the text
    calls,        \* number of add_torrent calls made so far
    nUpdates,     \* updates and webhook requests delivered so far
    done,         \* the handler that finished last, with what it did
    lastReq,      \* the secret header of the last request to /update
    lastResp,     \* the last response of /update
    lastUpd,      \* per user: the update delivered last
    latest,       \* per user: the first link of its last text with a link
    pendingSpec,  \* per user: the link the state table says is pending
    raced,        \* per user: two of its updates were in flight together
    submitted,    \* per user: add_torrent calls made with its stored link
    life,         \* main(): where it is, what it has started
    probe         \* the last call or request made from outside the chat

vars == <<mode, secret, client, user_data, tasks, offers, calls, nUpdates,
          done, lastReq, lastResp, lastUpd, latest, pendingSpec, raced,
          submitted, life, probe>>

NoReply == [kind |-> "none", keyboard |-> <<>>, path |-> <<>>]
NoUpd == [kind |-> "none", link |-> NoLink, valid |-> FALSE,
          overlap |-> FALSE]
NoResp == [status |-> 0, body |-> ""]
NoTask == [id |-> 0, kind |-> "none", user |-> "", text |-> <<>>,
           data |-> <<>>, srcLink |-> NoLink, pick |-> 0,
           pc |-> "", magnet_link |-> NoLink, download_path |-> <<>>,
           reply |-> NoReply, submits |-> <<>>, before |-> NoUpd,
           overlap |-> FALSE, store0 |-> NoLink, readLatest |-> NoLink,
           putAfterRead |-> FALSE]

\* --------------------------------------------------------- daemon gateway
\* TransmissionClient.get_download_dirs: the defaults when there is no
\* client or get_session raises, else a copy of the defaults, entry by entry.
get_download_dirs(connected, sessionOk) ==
    IF ~connected THEN DEFAULT_DOWNLOAD_DIRS
    ELSE IF sessionOk
         THEN [i \in 1..Len(DEFAULT_DOWNLOAD_DIRS) |-> DEFAULT_DOWNLOAD_DIRS[i]]
         ELSE DEFAULT_DOWNLOAD_DIRS

\* The RPC is made whether or not there is a client.
add_torrent_unguarded(connected, rpcOk) == [ok |-> rpcOk, rpc |-> TRUE]

\* TransmissionClient.add_torrent: False without a client, without an RPC;
\* else the RPC is made and the result is whether it returned or raised.
add_torrent(connected, rpcOk) ==
    IF ~connected THEN [ok |-> FALSE, rpc |-> FALSE]
    ELSE [ok |-> rpcOk, rpc |-> TRUE]

NotInitialized == "Transmission client not initialized"

\* get_transmission_status: without a client no RPC is made and the error
\* is the fixed text; with one, get_session and get_torrents are called and
\* the error is str(e) of the RPC that raised (which may be empty).
get_transmission_status(connected, sessionOk, torrentsOk, excText) ==
    IF ~connected
    THEN [connected |-> FALSE, error |-> NotInitialized, rpcs |-> 0]
    ELSE IF ~sessionOk
         THEN [connected |-> FALSE, error |-> excText, rpcs |-> 1]
         ELSE IF ~torrentsOk
              THEN [connected |-> FALSE, error |-> excText, rpcs |-> 2]
              ELSE [connected |-> TRUE, error |-> "", rpcs |-> 2]

\* ------------------------------------------------------------- controller
\* The last link of the message instead of the first.
LastLink(magnet_links) == magnet_links[Len(magnet_links)]

\* magnet_link = magnet_links[0]
FirstLink(magnet_links) == magnet_links[1]

\* The buttons in the reverse of the catalog order.
KeyboardReversed(download_dirs) ==
    [i \in 1..Len(download_dirs) |->
        [label |-> download_dirs[Len(download_dirs) + 1 - i].label,
         callback_data |->
             DownloadPrefix \o download_dirs[Len(download_dirs) + 1 - i].path]]

\* keyboard.append([InlineKeyboardButton(label, callback_data=f"download:{path}")])
Keyboard(download_dirs) ==
    [i \in 1..Len(download_dirs) |->
        [label |-> download_dirs[i].label,
         callback_data |-> DownloadPrefix \o download_dirs[i].path]]

\* Every callback data is taken as a choice of destination.
IsDownloadAny(data) == TRUE

\* query.data.startswith("download:")
IsDownload(data) == StartsWith(data, DownloadPrefix)

\* str.lstrip(chars): the leading characters that are in chars are dropped.
RECURSIVE LStripFrom(_, _, _)
LStripFrom(s, chars, i) ==
    IF i <= Len(s) /\ s[i] \in chars
    THEN LStripFrom(s, chars, i + 1)
    ELSE SubStr(s, i, Len(s))

\* lstrip("download:") for replace("download:", "").
DownloadPathLstrip(data) ==
    LStripFrom(data, {DownloadPrefix[k] : k \in 1..Len(DownloadPrefix)}, 1)

\* The callback data taken as the path, prefix and all.
DownloadPathRaw(data) == data

\* download_path = query.data.replace("download:", "")
DownloadPath(data) == Replace(data, DownloadPrefix, <<>>)

\* The link is stored for every user.
PutAll(store, u, magnet_link) == [v \in Users |-> magnet_link]

\* setdefault instead of assignment: the first link stays.
PutIfAbsent(store, u, magnet_link) ==
    IF store[u] = NoLink THEN [store EXCEPT ![u] = magnet_link] ELSE store

\* context.user_data['magnet_link'] = magnet_link
PutLink(store, u, magnet_link) == [store EXCEPT ![u] = magnet_link]

\* One slot for all users (bot_data for user_data).
GetShared(store, u) ==
    IF \A v \in Users : store[v] = NoLink
    THEN NoLink
    ELSE store[CHOOSE v \in Users : store[v] # NoLink]

\* context.user_data.get('magnet_link')
GetLink(store, u) == store[u]

\* The link is read and never removed.
KeepLink(store, u) == store

\* context.user_data.pop('magnet_link', None)
PopLink(store, u) == [store EXCEPT ![u] = NoLink]

\* str(e) of an exception.
ExcTexts == {"", "timed out"}

\* The text of the exception as the body of the response.
ErrorResponseLeaky(e) == [status |-> 500, body |-> e]

\* except Exception as e: web.Response(text='Error', status=500)
ErrorResponse(e) == [status |-> 500, body |-> "Error"]

\* A request without the header passes.
SecretRejectedIfPresent(token, header) ==
    token # <<>> /\ header # <<>> /\ header # token

\* The secret check of telegram_webhook_handler: the request is rejected.
SecretRejected(token, header) == token # <<>> /\ header # token

\* ---------------------------------------------------------------- updates
TextUpdate(u, text) ==
    [kind |-> "text", user |-> u, text |-> text, data |-> <<>>,
     srcLink |-> NoLink, pick |-> 0]

\* The callback query of button `pick` of the keyboard sent for offer o.
PickUpdate(o, pick) ==
    [kind |-> "callback", user |-> o.user, text |-> <<>>,
     data |-> o.keyboard[pick].callback_data,
     srcLink |-> o.link, pick |-> pick]

\* A callback query with data no keyboard of this program carries.
ForgedUpdate(u, data) ==
    [kind |-> "callback", user |-> u, text |-> <<>>, data |-> data,
     srcLink |-> NoLink, pick |-> 0]

\* The commands main() registers a CommandHandler for.
CmdStart == <<"/","s","t","a","r","t">>
CmdHelp == <<"/","h","e","l","p">>
CmdStatus == <<"/","s","t","a","t","u","s">>
Commands == {CmdStart, CmdHelp, CmdStatus}

\* A message that is a command: filters.COMMAND keeps it from handle_message.
CommandUpdate(u, cmd) ==
    [kind |-> "command", user |-> u, text |-> cmd, data |-> <<>>,
     srcLink |-> NoLink, pick |-> 0]

Updates ==
    {TextUpdate(u, x) : u \in Users, x \in Texts}
    \cup {PickUpdate(o, k) : o \in offers, k \in 1..MaxPick}
    \cup {ForgedUpdate(u, d) : u \in Users, d \in ForgedData}

\* The first magnet link of a text update, NoLink when it has none.
SpecLink(upd) ==
    IF upd.kind = "text" /\ LinksOf(upd.text) # <<>>
    THEN Head(LinksOf(upd.text))
    ELSE NoLink

\* What the state table of the conversation says is pending after upd.
SpecPending(old, upd) ==
    IF upd.kind = "text"
    THEN IF SpecLink(upd) # NoLink THEN SpecLink(upd) ELSE old
    ELSE IF ValidPayload(upd.data) THEN NoLink ELSE old

UpdSummary(upd, ov) ==
    [kind |-> upd.kind,
     link |-> SpecLink(upd),
     valid |-> upd.kind = "callback" /\ ValidPayload(upd.data),
     overlap |-> ov]

\* A new task for upd, with the bookkeeping of its delivery.
NewTask(id, upd, pc, reply) ==
    [id |-> id, kind |-> upd.kind, user |-> upd.user, text |-> upd.text,
     data |-> upd.data, srcLink |-> upd.srcLink,
     pick |-> upd.pick, pc |-> pc, magnet_link |-> NoLink,
     download_path |-> <<>>, reply |-> reply, submits |-> <<>>,
     before |-> lastUpd[upd.user],
     overlap |-> \E t \in tasks : t.user = upd.user,
     store0 |-> user_data[upd.user], readLatest |-> NoLink,
     putAfterRead |-> FALSE]

\* The tasks in flight, those of user u marked as overlapped.
Marked(u) == {[t EXCEPT !.overlap = @ \/ (t.user = u)] : t \in tasks}

\* The same, when a text with a link is delivered: the tasks of u that
\* have read the store are marked as having a later link put under them.
MarkedPut(u) ==
    {[t EXCEPT !.overlap = @ \/ (t.user = u),
               !.putAfterRead = @ \/ (t.user = u /\ t.pc \in {"edit_nolink", "edit_result"})]
       : t \in tasks}

Delivered(id, upd) ==
    /\ nUpdates' = id
    /\ lastUpd' = [lastUpd EXCEPT ![upd.user] =
                     UpdSummary(upd, \E t \in tasks : t.user = upd.user)]
    /\ pendingSpec' = [pendingSpec EXCEPT ![upd.user] = SpecPending(@, upd)]
    /\ latest' = [latest EXCEPT ![upd.user] =
                    IF SpecLink(upd) # NoLink THEN SpecLink(upd) ELSE @]
    /\ raced' = [raced EXCEPT ![upd.user] = @ \/ \E t \in tasks : t.user = upd.user]
    /\ submitted' = [submitted EXCEPT ![upd.user] =
                       IF SpecLink(upd) # NoLink THEN 0 ELSE @]

\* handle_message, up to its await of reply_text.
handle_message(id, upd) ==
    LET u == upd.user
        magnet_links == extract_magnet_links(upd.text)
    IN  IF magnet_links = <<>>
        THEN /\ tasks' = Marked(u) \cup
                    {NewTask(id, upd, "reply",
                             [NoReply EXCEPT !.kind = "no_links"])}
             /\ UNCHANGED <<user_data, offers>>
        ELSE \E sessionOk \in BOOLEAN :
             LET magnet_link == FirstLink(magnet_links)
                 download_dirs == get_download_dirs(client, sessionOk)
                 keyboard == Keyboard(download_dirs)
             IN  /\ user_data' = PutLink(user_data, u, magnet_link)
                 /\ tasks' = MarkedPut(u) \cup
                        {[NewTask(id, upd, "reply",
                                  [kind |-> "choose", keyboard |-> keyboard,
                                   path |-> <<>>])
                          EXCEPT !.magnet_link = magnet_link]}
                 /\ offers' = offers \cup
                        {[user |-> u,
                          link |-> SpecLink(upd),
                          keyboard |-> keyboard]}

\* handle_callback, up to its await of query.answer().
handle_callback(id, upd) ==
    /\ tasks' = Marked(upd.user) \cup {NewTask(id, upd, "answer", NoReply)}
    /\ UNCHANGED <<user_data, offers>>

\* start, help_command, status_command, up to their await of reply_text:
\* status_command asks the daemon when there is a client.
handle_command(id, upd) ==
    /\ \E sessionOk \in BOOLEAN :
           LET kind == IF upd.text = CmdStart THEN "welcome"
                       ELSE IF upd.text = CmdHelp THEN "help"
                       ELSE IF ~client THEN "status_disconnected"
                       ELSE IF sessionOk THEN "status_connected"
                       ELSE "status_error"
           IN  tasks' = Marked(upd.user) \cup
                   {NewTask(id, upd, "reply", [NoReply EXCEPT !.kind = kind])}
    /\ UNCHANGED <<user_data, offers>>

\* Application.process_update: the handler registered for the update.
process_update(id, upd) ==
    /\ Delivered(id, upd)
    /\ IF upd.kind = "text"
       THEN handle_message(id, upd)
       ELSE IF upd.kind = "command"
            THEN handle_command(id, upd)
            ELSE handle_callback(id, upd)
    /\ UNCHANGED <<calls, done>>

\* The response of /update once process_update has returned:
\* web.Response(text='OK', status=200).
Responded(t) ==
    IF mode = "push"
    THEN [status |-> 200, body |-> "OK"]
    ELSE lastResp

\* A handler returns, leaving the store as `store`.
Finish(t, store) ==
    /\ tasks' = tasks \ {t}
    /\ user_data' = store
    /\ done' = [task |-> t, store1 |-> store[t.user]]
    /\ lastResp' = Responded(t)
    /\ UNCHANGED <<mode, secret, client, offers, calls, nUpdates, lastReq,
                   lastUpd, latest, pendingSpec, raced, submitted, life, probe>>

\* handle_message: reply_text has returned.
MessageReplied ==
    \E t \in tasks :
        /\ t.pc = "reply"
        /\ Finish(t, user_data)

\* handle_callback from the return of query.answer() to its await of
\* edit_message_text.
handle_callback_answered(t) ==
    IF ~IsDownload(t.data)
    THEN /\ tasks' = (tasks \ {t}) \cup
                {[t EXCEPT !.pc = "edit_invalid",
                           !.reply = [NoReply EXCEPT !.kind = "invalid"]]}
         /\ UNCHANGED <<calls, submitted>>
    ELSE LET download_path == DownloadPath(t.data)
             magnet_link == GetLink(user_data, t.user)
             t1 == [t EXCEPT !.download_path = download_path,
                             !.magnet_link = magnet_link,
                             !.readLatest = latest[t.user]]
         IN  IF magnet_link = NoLink
             THEN /\ tasks' = (tasks \ {t}) \cup
                         {[t1 EXCEPT !.pc = "edit_nolink",
                                     !.reply = [NoReply EXCEPT !.kind = "no_magnet"]]}
                  /\ UNCHANGED <<calls, submitted>>
             ELSE \E rpcOk \in BOOLEAN :
                  LET success == add_torrent(client, rpcOk)
                  IN  /\ calls' = calls + 1
                      /\ submitted' = [submitted EXCEPT ![t.user] = @ + 1]
                      /\ tasks' = (tasks \ {t}) \cup
                             {[t1 EXCEPT
                                 !.pc = "edit_result",
                                 !.submits = Append(@,
                                     [magnet |-> magnet_link,
                                      path |-> download_path,
                                      ok |-> success.ok, rpc |-> success.rpc]),
                                 !.reply =
                                     IF success.ok
                                     THEN [kind |-> "success", keyboard |-> <<>>,
                                           path |-> download_path]
                                     ELSE [NoReply EXCEPT !.kind = "failure"]]}

CallbackAnswered ==
    \E t \in tasks :
        /\ t.pc = "answer"
        /\ handle_callback_answered(t)
        /\ UNCHANGED <<mode, secret, client, user_data, offers, nUpdates, done,
                       lastReq, lastResp, lastUpd, latest, pendingSpec, raced,
                       life, probe>>

\* The link is kept for a retry when the submission failed.
store_kept_on_failure(t) ==
    IF t.pc = "edit_result" /\ t.reply.kind = "success"
    THEN PopLink(user_data, t.user)
    ELSE user_data

\* The pop in a finally clause: every branch clears the link.
store_always_popped(t) == PopLink(user_data, t.user)

\* The store after handle_callback's last statements: the branches that
\* return early leave it, the branch that submitted pops the link.
store_after_edit(t) ==
    IF t.pc = "edit_result" THEN PopLink(user_data, t.user) ELSE user_data

\* handle_callback: edit_message_text has returned.
CallbackEdited ==
    \E t \in tasks :
        /\ t.pc \in {"edit_invalid", "edit_nolink", "edit_result"}
        /\ Finish(t, store_after_edit(t))

\* --------------------------------------------------------- transport front
\* Long polling: Application.run_polling hands the updates to
\* process_update one after the other.
PollUpdate ==
    /\ mode = "poll"
    /\ tasks = {}
    /\ nUpdates < MaxUpdates
    /\ \E upd \in Updates : process_update(nUpdates + 1, upd)
    /\ UNCHANGED <<mode, secret, client, lastReq, lastResp, life, probe>>

\* telegram_webhook_handler, up to the await inside process_update.
telegram_webhook_handler(id, header, parsed, upd) ==
    /\ lastReq' = header
    /\ IF SecretRejected(secret, header)
       THEN /\ lastResp' = [status |-> 401, body |-> "Unauthorized"]
            /\ nUpdates' = id
            /\ UNCHANGED <<user_data, tasks, offers, calls, done, lastUpd,
                           latest, pendingSpec, raced, submitted>>
       ELSE IF ~parsed
            THEN /\ \E e \in ExcTexts : lastResp' = ErrorResponse(e)
                 /\ nUpdates' = id
                 /\ UNCHANGED <<user_data, tasks, offers, calls, done, lastUpd,
                                latest, pendingSpec, raced, submitted>>
            ELSE /\ process_update(id, upd)
                 /\ UNCHANGED lastResp

\* Push mode: aiohttp runs one telegram_webhook_handler per request to
\* /update, concurrently.  The body is an update or does not parse.
WebhookRequest ==
    /\ mode = "push"
    /\ nUpdates < MaxUpdates
    /\ Cardinality(tasks) < MaxInflight
    /\ \E header \in Headers, parsed \in BOOLEAN, upd \in Updates :
           telegram_webhook_handler(nUpdates + 1, header, parsed, upd)
    /\ UNCHANGED <<mode, secret, client, life, probe>>

\* A request to /update that carries a command.
CommandRequest ==
    /\ mode = "push"
    /\ nUpdates < MaxUpdates
    /\ Cardinality(tasks) < MaxInflight
    /\ \E header \in Headers, u \in Users, cmd \in Commands :
           telegram_webhook_handler(nUpdates + 1, header, TRUE,
                                    CommandUpdate(u, cmd))
    /\ UNCHANGED <<mode, secret, client, life, probe>>

\* An exception leaves the await of process_update while the handler is
\* suspended: the statements after its await are not executed, the except
\* clause of telegram_webhook_handler answers.
ProcessUpdateRaised ==
    /\ mode = "push"
    /\ \E t \in tasks, e \in ExcTexts :
           /\ tasks' = tasks \ {t}
           /\ lastResp' = ErrorResponse(e)
    /\ UNCHANGED <<mode, secret, client, user_data, offers, calls, nUpdates,
                   done, lastReq, lastUpd, latest, pendingSpec, raced,
                   submitted, life, probe>>

\* ------------------------------------------------ calls from outside
\* What the handlers of the chat own; a call below leaves it alone.
chat == <<user_data, tasks, offers, calls, nUpdates, done, lastReq, lastResp,
          lastUpd, latest, pendingSpec, raced, submitted>>

NoProbe == [op |-> "none", id |-> 0, arg |-> <<>>, out |-> <<>>]

\* The magnet links and paths the gateway is called with.
Magnets == {LinkA, LinkB}
CatalogPaths == {DEFAULT_DOWNLOAD_DIRS[i].path : i \in 1..Len(DEFAULT_DOWNLOAD_DIRS)}

\* transmission_client.get_download_dirs()
ListDestinations ==
    /\ \E sessionOk \in BOOLEAN :
           probe' = [op |-> "list", id |-> 0, arg |-> <<sessionOk>>,
                     out |-> get_download_dirs(client, sessionOk)]
    /\ UNCHANGED <<mode, secret, client, life>>
    /\ UNCHANGED chat

\* transmission_client.add_torrent(magnet_link, download_path)
Submit ==
    /\ \E magnet \in Magnets, path \in CatalogPaths, rpcOk \in BOOLEAN :
           probe' = [op |-> "submit", id |-> 0, arg |-> <<magnet, path, rpcOk>>,
                     out |-> add_torrent(client, rpcOk)]
    /\ UNCHANGED <<mode, secret, client, life>>
    /\ UNCHANGED chat

\* get_transmission_status()
Status ==
    /\ \E sessionOk \in BOOLEAN, torrentsOk \in BOOLEAN, excText \in ExcTexts :
           probe' = [op |-> "status", id |-> 0, arg |-> <<sessionOk, torrentsOk, excText>>,
                     out |-> get_transmission_status(client, sessionOk,
                                                     torrentsOk, excText)]
    /\ UNCHANGED <<mode, secret, client, life>>
    /\ UNCHANGED chat

\* Destination paths: one to MaxParts pieces, one after the other.
PathPieces ==
    {<<"/">>, <<"a">>, DownloadPrefix, <<"d","o","w","n">>,
     <<"l","o","a","d",":">>}

RECURSIVE PathsOf(_)
PathsOf(n) ==
    IF n = 1 THEN PathPieces
    ELSE PathsOf(n - 1) \cup {p \o q : p \in PathsOf(n - 1), q \in PathPieces}

Paths == PathsOf(MaxParts)

\* The button handle_message builds for a catalog entry of path p, and what
\* handle_callback makes of its callback data.  The result depends on p
\* alone: one path is tried per run.
PayloadRoundTrip ==
    /\ probe = NoProbe
    /\ \E p \in Paths :
           LET data == Keyboard(<<[label |-> "Entry", path |-> p]>>)[1].callback_data
           IN  probe' = [op |-> "roundtrip", id |-> 0, arg |-> p,
                         out |-> [accepted |-> IsDownload(data),
                                  path |-> DownloadPath(data)]]
    /\ UNCHANGED <<mode, secret, client, life>>
    /\ UNCHANGED chat

\* Words of a text: magnet tokens, and words that hold none.
TokenWords == {LinkA, LinkB, LinkA \o LinkB}
JunkWords == {<<"h","i">>, MagnetPrefix, <<"m","a","g","n","e","t",":">>}
Words == TokenWords \cup JunkWords
WordSeqs == UNION {[1..n -> Words] : n \in 0..MaxWords}
Separators == {<<" ">>, <<"\t","\n">>}

\* The words of ws, sep between two of them.
RECURSIVE Join(_, _)
Join(ws, sep) ==
    IF ws = <<>> THEN <<>>
    ELSE IF Len(ws) = 1 THEN ws[1]
         ELSE ws[1] \o sep \o Join(Tail(ws), sep)

\* extract_magnet_links on the text of the words ws, with or without
\* whitespace after the last word.  One text is tried per run.
ExtractLinks ==
    /\ probe = NoProbe
    /\ \E ws \in WordSeqs, sep \in Separators, end \in Separators \cup {<<>>} :
           LET text == Join(ws, sep) \o end
           IN  probe' = [op |-> "extract", id |-> 0, arg |-> [words |-> ws, text |-> text],
                         out |-> extract_magnet_links(text)]
    /\ UNCHANGED <<mode, secret, client, life>>
    /\ UNCHANGED chat

\* ------------------------------------------------------------- main()
\* life.pc is the statement main() is at; app is the Application, webhook
\* the registration of WEBHOOK_URL with Telegram, listening the TCP site.
NotStarted(token) ==
    [pc |-> "main", token |-> token, app |-> "none", webhook |-> FALSE,
     listening |-> FALSE]

\* main() once startup is over: in run_polling, or waiting on the Event.
Running(m) ==
    IF m = "push"
    THEN [pc |-> "serving", token |-> TRUE, app |-> "started",
          webhook |-> TRUE, listening |-> TRUE]
    ELSE [pc |-> "polling", token |-> TRUE, app |-> "started",
          webhook |-> FALSE, listening |-> FALSE]

LifeStep(new) ==
    /\ life' = new
    /\ UNCHANGED <<mode, secret, client, probe>>
    /\ UNCHANGED chat

\* main(): without a token it returns; else the Application is built and
\* run_webhook or run_polling is entered.
Main ==
    /\ life.pc = "main"
    /\ IF ~life.token
       THEN LifeStep([life EXCEPT !.pc = "exit"])
       ELSE IF mode = "push"
            THEN LifeStep([life EXCEPT !.pc = "initialize", !.app = "built"])
            ELSE LifeStep([life EXCEPT !.pc = "polling", !.app = "started"])

\* await application.initialize(); await application.start()
ApplicationStart ==
    /\ life.pc = "initialize"
    /\ LifeStep([life EXCEPT !.pc = "set_webhook", !.app = "started"])

\* await application.bot.set_webhook(...): it returns, or it raises and
\* the exception leaves run_webhook.
SetWebhook ==
    /\ life.pc = "set_webhook"
    /\ \E ok \in BOOLEAN :
           IF ok
           THEN LifeStep([life EXCEPT !.pc = "site_start", !.webhook = TRUE])
           ELSE LifeStep([life EXCEPT !.pc = "exit"])

\* await runner.setup(); await site.start(): the port is bound, or the
\* exception leaves run_webhook.
SiteStart ==
    /\ life.pc = "site_start"
    /\ \E ok \in BOOLEAN :
           IF ok
           THEN LifeStep([life EXCEPT !.pc = "serving", !.listening = TRUE])
           ELSE LifeStep([life EXCEPT !.pc = "exit"])

\* The process is told to stop: the wait on the Event ends and the finally
\* clause is entered; run_polling stops the Application itself and returns.
Interrupt ==
    /\ life.pc \in {"serving", "polling"}
    /\ IF life.pc = "serving"
       THEN LifeStep([life EXCEPT !.pc = "cleanup"])
       ELSE LifeStep([life EXCEPT !.pc = "exit", !.app = "shutdown"])

\* await runner.cleanup()
RunnerCleanup ==
    /\ life.pc = "cleanup"
    /\ LifeStep([life EXCEPT !.pc = "stop", !.listening = FALSE])

\* await application.stop()
ApplicationStop ==
    /\ life.pc = "stop"
    /\ LifeStep([life EXCEPT !.pc = "shutdown", !.app = "stopped"])

\* await application.shutdown(); run_webhook and main return.
ApplicationShutdown ==
    /\ life.pc = "shutdown"
    /\ LifeStep([life EXCEPT !.pc = "exit", !.app = "shutdown"])

\* healthz_handler
healthz_handler == [status |-> 200, body |-> "OK"]

\* status_handler: the page of the status snapshot; 500 of aiohttp when
\* generate_status_page raises on its template.
status_handler(snapshot, templateOk) ==
    IF templateOk
    THEN [status |-> 200, body |-> "page", snapshot |-> snapshot]
    ELSE [status |-> 500, body |-> "", snapshot |-> snapshot]

\* No listener on the port: the connection is refused.
Refused == [status |-> 0, body |-> ""]

\* What a GET request leaves alone: it is one of the requests of the run.
Requested ==
    /\ nUpdates < MaxUpdates
    /\ nUpdates' = nUpdates + 1
    /\ UNCHANGED <<mode, secret, client, life, user_data, tasks, offers,
                   calls, done, lastReq, lastResp, lastUpd, latest,
                   pendingSpec, raced, submitted>>

\* GET /healthz on WEBHOOK_PORT
HealthzRequest ==
    /\ probe' = [op |-> "healthz", id |-> nUpdates + 1, arg |-> life.pc,
                 out |-> IF life.listening THEN healthz_handler ELSE Refused]
    /\ Requested

\* GET /status on WEBHOOK_PORT
StatusRequest ==
    /\ \E sessionOk \in BOOLEAN, torrentsOk \in BOOLEAN, excText \in ExcTexts,
          templateOk \in BOOLEAN :
           probe' = [op |-> "status_page", id |-> nUpdates + 1, arg |-> life.pc,
                     out |-> IF life.listening
                             THEN status_handler(
                                      get_transmission_status(client, sessionOk,
                                          torrentsOk, excText), templateOk)
                             ELSE Refused]
    /\ Requested

\* ------------------------------------------------------------ specification
Init ==
    /\ mode \in {"poll", "push"}
    /\ secret \in Secrets
    /\ client \in BOOLEAN
    /\ user_data = [u \in Users |-> NoLink]
    /\ tasks = {}
    /\ offers = {}
    /\ calls = 0
    /\ nUpdates = 0
    /\ done = [task |-> NoTask, store1 |-> NoLink]
    /\ lastReq = <<>>
    /\ lastResp = NoResp
    /\ lastUpd = [u \in Users |-> NoUpd]
    /\ latest = [u \in Users |-> NoLink]
    /\ pendingSpec = [u \in Users |-> NoLink]
    /\ raced = [u \in Users |-> FALSE]
    /\ submitted = [u \in Users |-> 0]
    /\ probe = NoProbe

\* Long-poll mode: main() with WEBHOOK_MODE unset, in run_polling.
InitPoll == Init /\ mode = "poll" /\ life = Running("poll")

NextPoll ==
    \/ PollUpdate
    \/ MessageReplied
    \/ CallbackAnswered
    \/ CallbackEdited

SpecPoll == InitPoll /\ [][NextPoll]_vars

\* Push mode: main() with WEBHOOK_MODE=true.
InitPush == Init /\ mode = "push" /\ life = Running("push")

NextPush ==
    \/ WebhookRequest
    \/ MessageReplied
    \/ CallbackAnswered
    \/ CallbackEdited

SpecPush == InitPush /\ [][NextPush]_vars

\* Push mode, a secret configured, with all that the listener serves:
\* updates with commands, the two GET endpoints, and requests whose
\* processing raises.
NextServe ==
    \/ WebhookRequest
    \/ CommandRequest
    \/ MessageReplied
    \/ CallbackAnswered
    \/ CallbackEdited
    \/ ProcessUpdateRaised
    \/ HealthzRequest
    \/ StatusRequest

InitServe == InitPush /\ secret = SecretS

SpecServe == InitServe /\ [][NextServe]_vars

\* The gateway, the payload and the link extractor, called one at a time
\* with the connection that TransmissionClient() made or failed to make.
InitOps == InitPoll \/ InitPush

NextOps ==
    \/ ListDestinations
    \/ Submit
    \/ Status
    \/ PayloadRoundTrip
    \/ ExtractLinks

SpecOps == InitOps /\ [][NextOps]_vars

\* The life of the process, from main() to its return, in both modes, with
\* requests to the two GET endpoints at any time.
InitLife == Init /\ life \in {NotStarted(token) : token \in BOOLEAN}

NextLife ==
    \/ Main
    \/ ApplicationStart
    \/ SetWebhook
    \/ SiteStart
    \/ Interrupt
    \/ RunnerCleanup
    \/ ApplicationStop
    \/ ApplicationShutdown
    \/ HealthzRequest
    \/ StatusRequest

SpecLife == InitLife /\ [][NextLife]_vars

\* ------------------------------------------------------------------ claims
\* The updates of the conversation of t were handled one at a time while t
\* ran: none was in flight when t was delivered, none was delivered before
\* t returned.
OneAtATime(t) == ~t.overlap

\* C1: when a text message with a magnet link is followed, as the next
\* update of its conversation, by the callback query of one of the offered
\* buttons, and the updates are handled one at a time, add_torrent is called
\* exactly once, with the first link of the message and the path of the
\* catalog entry of the button.
C1_SubmitOnce ==
    LET t == done.task
    IN  (/\ t.kind = "callback" /\ t.pick > 0
         /\ t.before.kind = "text" /\ t.before.link # NoLink
         /\ OneAtATime(t) /\ ~t.before.overlap)
        => /\ Len(t.submits) = 1
           /\ t.submits[1].magnet = t.before.link
           /\ t.submits[1].path = DEFAULT_DOWNLOAD_DIRS[t.pick].path

C1_Witness ==
    LET t == done.task
    IN  /\ t.kind = "callback" /\ t.pick = 2
        /\ t.before.kind = "text" /\ t.before.link = LinkB
        /\ OneAtATime(t) /\ ~t.before.overlap
        /\ Len(t.submits) = 1 /\ t.submits[1].ok

\* C2: of two consecutive callback queries with a "download:" payload of
\* one conversation, with no text message between them and handled one
\* after the other, the second finds no link, replies "no magnet link
\* found" and does not call add_torrent.
C2_SecondSelectionFindsNothing ==
    LET t == done.task
    IN  (/\ t.kind = "callback" /\ ValidPayload(t.data)
         /\ t.before.kind = "callback" /\ t.before.valid
         /\ OneAtATime(t))
        => /\ t.magnet_link = NoLink
           /\ t.reply.kind = "no_magnet"
           /\ t.submits = <<>>

\* The second query after a first one that submitted the link.
C2_Witness ==
    LET t == done.task
    IN  /\ t.kind = "callback" /\ ValidPayload(t.data) /\ t.pick > 0
        /\ t.before.kind = "callback" /\ t.before.valid
        /\ OneAtATime(t)
        /\ calls = 1
        /\ t.reply.kind = "no_magnet"

\* C3: a callback query with a "download:" payload of a conversation that
\* has no pending link is answered "no magnet link found", calls
\* add_torrent not at all and leaves the conversation without a pending
\* link.
C3_NoPendingNoSubmit ==
    LET t == done.task
    IN  (/\ t.kind = "callback" /\ ValidPayload(t.data)
         /\ t.store0 = NoLink
         /\ OneAtATime(t))
        => /\ t.reply.kind = "no_magnet"
           /\ t.submits = <<>>
           /\ done.store1 = NoLink

\* Another conversation has a pending link at that time.
C3_Witness ==
    LET t == done.task
    IN  /\ t.kind = "callback" /\ ValidPayload(t.data)
        /\ t.store0 = NoLink
        /\ OneAtATime(t)
        /\ t.reply.kind = "no_magnet"
        /\ \E v \in Users : v # t.user /\ user_data[v] # NoLink

\* C4: a text message with a magnet link leaves its first link pending and
\* is answered with one button per entry of the catalog, in its order, each
\* carrying "download:" and the path of the entry, with or without a
\* connection to the daemon.
C4_OneButtonPerEntry ==
    LET t == done.task
    IN  (t.kind = "text" /\ LinksOf(t.text) # <<>>)
        => /\ t.reply.kind = "choose"
           /\ Len(t.reply.keyboard) = Len(DEFAULT_DOWNLOAD_DIRS)
           /\ \A i \in 1..Len(DEFAULT_DOWNLOAD_DIRS) :
                 /\ t.reply.keyboard[i].label = DEFAULT_DOWNLOAD_DIRS[i].label
                 /\ t.reply.keyboard[i].callback_data =
                        DownloadPrefix \o DEFAULT_DOWNLOAD_DIRS[i].path
           /\ OneAtATime(t) => done.store1 = Head(LinksOf(t.text))

\* Without a connection, from a conversation that awaits a selection.
C4_Witness ==
    LET t == done.task
    IN  /\ t.kind = "text" /\ LinksOf(t.text) # <<>>
        /\ ~client
        /\ t.store0 # NoLink
        /\ t.reply.kind = "choose"
        /\ done.store1 = Head(LinksOf(t.text))

\* C5 as stated: a text message without a magnet link is answered with the
\* guidance, calls add_torrent not at all and leaves the conversation with
\* no pending link.
C5_NoLinkTextLeavesIdle ==
    LET t == done.task
    IN  (t.kind = "text" /\ LinksOf(t.text) = <<>> /\ OneAtATime(t))
        => /\ t.reply.kind = "no_links"
           /\ t.submits = <<>>
           /\ done.store1 = NoLink

\* C5 as amended: a text message without a magnet link is answered with
\* the guidance, calls add_torrent not at all and leaves the pending link
\* of the conversation as it was.
C5_NoLinkTextKeepsPending ==
    LET t == done.task
    IN  (t.kind = "text" /\ LinksOf(t.text) = <<>> /\ OneAtATime(t))
        => /\ t.reply.kind = "no_links"
           /\ t.submits = <<>>
           /\ done.store1 = t.store0

C5_Witness ==
    LET t == done.task
    IN  /\ t.kind = "text" /\ LinksOf(t.text) = <<>> /\ OneAtATime(t)
        /\ t.reply.kind = "no_links"
        /\ t.store0 # NoLink
        /\ done.store1 = t.store0

\* C6: between updates, the one pending link of a conversation is the first
\* link of its last text message with a link, unless a callback query with
\* a "download:" payload came after it: a later link overwrites an earlier
\* one, the second link of a message is never pending.
C6_LastWriteWins ==
    \A u \in Users :
        (~raced[u] /\ ~\E t \in tasks : t.user = u)
        => user_data[u] = pendingSpec[u]

\* The first link of a two-link message has overwritten a pending link.
C6_Witness ==
    LET t == done.task
    IN  /\ t.kind = "text" /\ t.text = TextBA
        /\ t.store0 = LinkA
        /\ ~raced[t.user] /\ ~\E t2 \in tasks : t2.user = t.user
        /\ user_data[t.user] = LinkB

\* C7: a callback query with a "download:" payload that finds a pending
\* link calls add_torrent once and leaves the conversation with no pending
\* link, whatever add_torrent returned; the reply is the success text
\* exactly when it returned true, the failure text otherwise.
C7_ResolvedEitherWay ==
    LET t == done.task
    IN  (/\ t.kind = "callback" /\ ValidPayload(t.data)
         /\ t.store0 # NoLink
         /\ OneAtATime(t))
        => /\ Len(t.submits) = 1
           /\ done.store1 = NoLink
           /\ t.reply.kind = IF t.submits[1].ok THEN "success" ELSE "failure"

\* A connected daemon refused the torrent.
C7_Witness ==
    LET t == done.task
    IN  /\ t.kind = "callback" /\ ValidPayload(t.data)
        /\ t.store0 # NoLink
        /\ OneAtATime(t)
        /\ Len(t.submits) = 1 /\ ~t.submits[1].ok /\ t.submits[1].rpc
        /\ t.reply.kind = "failure"
        /\ done.store1 = NoLink

\* C8: a callback query whose payload does not start with "download:" is
\* answered "invalid selection", calls add_torrent not at all and leaves
\* the pending link of the conversation as it was.
C8_InvalidSelection ==
    LET t == done.task
    IN  (t.kind = "callback" /\ ~ValidPayload(t.data) /\ OneAtATime(t))
        => /\ t.reply.kind = "invalid"
           /\ t.submits = <<>>
           /\ done.store1 = t.store0

C8_Witness ==
    LET t == done.task
    IN  /\ t.kind = "callback" /\ ~ValidPayload(t.data) /\ OneAtATime(t)
        /\ t.reply.kind = "invalid"
        /\ t.store0 # NoLink
        /\ done.store1 = t.store0

\* C9: in push mode with a secret configured, a request to /update whose
\* secret header is absent or differs from the secret is answered 401 and
\* changes neither the store nor the handlers in flight nor the number of
\* add_torrent calls; a request with the secret is not rejected: its update
\* is handed to process_update, or its body does not parse (500).
C9_SecretGuardsUpdate ==
    [][(mode = "push" /\ secret # <<>> /\ nUpdates' # nUpdates)
       => IF lastReq' # secret
          THEN /\ lastResp'.status = 401
               /\ UNCHANGED <<user_data, tasks, offers, calls, done>>
          ELSE \/ \E t \in tasks' : t.id = nUpdates'
               \/ lastResp'.status = 500 /\ UNCHANGED tasks]_vars

\* A request without the header was rejected while a link was pending.
C9_Witness ==
    /\ mode = "push" /\ secret # <<>>
    /\ lastReq = <<>>
    /\ lastResp.status = 401
    /\ \E u \in Users : user_data[u] # NoLink

\* C10 as stated: the add_torrent call of a callback query carries the link
\* of the text message whose keyboard the button is on.
C10_SubmitsOfferedLink ==
    LET t == done.task
    IN  (t.kind = "callback" /\ t.srcLink # NoLink)
        => \A i \in 1..Len(t.submits) : t.submits[i].magnet = t.srcLink

\* C10 as amended: the add_torrent call of a callback query carries the
\* first link of the last text message with a link that the conversation
\* sent before the handler read the store, whichever keyboard the button
\* is on.
C10_SubmitsLatestLink ==
    LET t == done.task
    IN  t.kind = "callback"
        => \A i \in 1..Len(t.submits) : t.submits[i].magnet = t.readLatest

\* The button is on the keyboard of an earlier message with another link.
C10_Witness ==
    LET t == done.task
    IN  /\ t.kind = "callback" /\ t.srcLink = LinkA
        /\ Len(t.submits) = 1
        /\ t.submits[1].magnet = LinkB
        /\ t.readLatest = LinkB

\* C11: when TransmissionClient() could not connect, then at any later
\* time get_download_dirs returns DEFAULT_DOWNLOAD_DIRS as it is, add_torrent
\* returns false without an RPC to the daemon, and get_transmission_status
\* reports connected = false with a non-empty error and no RPC either.
C11_DisconnectedGateway ==
    ~client =>
        /\ probe.op = "list" => probe.out = DEFAULT_DOWNLOAD_DIRS
        /\ probe.op = "submit" => (~probe.out.ok /\ ~probe.out.rpc)
        /\ probe.op = "status" =>
               /\ ~probe.out.connected
               /\ probe.out.error # ""
               /\ probe.out.rpcs = 0

\* A submission without a connection, for a daemon that would have taken it.
C11_Witness ==
    /\ ~client
    /\ probe.op = "submit"
    /\ probe.arg = <<LinkA, DEFAULT_DOWNLOAD_DIRS[3].path, TRUE>>
    /\ ~probe.out.ok

\* "download:" occurs in the path p.
HasPrefixInside(p) ==
    \E i \in 1..Len(p) :
        /\ i + 8 <= Len(p)
        /\ SubStr(p, i, i + 8) = DownloadPrefix

\* C15 as stated: for every non-empty path p, the callback data
\* "download:" + p is taken as a destination choice and the path recovered
\* from it, the one passed to add_torrent, is p.
C15_RoundTripEveryPath ==
    probe.op = "roundtrip" =>
        /\ probe.out.accepted
        /\ probe.out.path = probe.arg

\* C15 as amended: the same for every non-empty path p in which
\* "download:" does not occur.
C15_RoundTripPrefixFreePath ==
    (probe.op = "roundtrip" /\ ~HasPrefixInside(probe.arg)) =>
        /\ probe.out.accepted
        /\ probe.out.path = probe.arg

\* A path that begins with letters of the prefix and has its two halves.
C15_Witness ==
    /\ probe.op = "roundtrip"
    /\ probe.arg = <<"d","o","w","n","/","l","o","a","d",":">>
    /\ probe.out.accepted
    /\ probe.out.path = probe.arg

\* C17: a text whose words hold no magnet token ("magnet:?" and at least
\* one character that is not whitespace) has no links; of a text of N magnet
\* tokens separated by whitespace the links are the N tokens, in their
\* order, each starting with "magnet:?", a token that is repeated as often
\* as it is in the text.
C17_OneLinkPerToken ==
    probe.op = "extract" =>
        LET ws == probe.arg.words
        IN  /\ (\A i \in 1..Len(ws) : ws[i] \in JunkWords)
                   => probe.out = <<>>
            /\ (\A i \in 1..Len(ws) : ws[i] \in TokenWords)
                   => /\ Len(probe.out) = Len(ws)
                      /\ \A i \in 1..Len(ws) :
                            /\ probe.out[i] = ws[i]
                            /\ SubStr(probe.out[i], 1, 8) = MagnetPrefix

\* Three tokens, the first and the last the same, no whitespace at the end.
C17_Witness ==
    /\ probe.op = "extract"
    /\ probe.arg.words = <<LinkB, LinkA \o LinkB, LinkB>>
    /\ probe.arg.text[Len(probe.arg.text)] = "b"
    /\ probe.out = probe.arg.words

\* main() is past its startup and has not been told to stop.
AliveAfterStartup(pc) == pc \in {"serving", "polling"}

\* C13: in both modes, while the process is past its startup and alive,
\* the port has a listener, a GET /healthz is answered 200 "OK" and a GET
\* /status is answered, with or without a connection to the daemon.
C13_ProbesServedInBothModes ==
    /\ AliveAfterStartup(life.pc) => life.listening
    /\ (probe.op = "healthz" /\ AliveAfterStartup(probe.arg))
           => probe.out = [status |-> 200, body |-> "OK"]
    /\ (probe.op = "status_page" /\ AliveAfterStartup(probe.arg))
           => probe.out.status # 0

\* C14: in push mode the listener is closed before the Application is
\* stopped, and when the process exits after a shutdown the webhook that
\* run_webhook registered is registered no more.
C14_ShutdownDeregisters ==
    mode = "push" =>
        /\ life.app \in {"stopped", "shutdown"} => ~life.listening
        /\ (life.pc = "exit" /\ life.app = "shutdown") => ~life.webhook

\* C18: a stored link is submitted at most once, in push mode too: between
\* two text messages with a link of a conversation, at most one add_torrent
\* call is made with the link of the first, however the handlers of its
\* callback queries interleave at their awaits.
C18_StoredLinkSubmittedOnce ==
    \A u \in Users : submitted[u] <= 1

\* C19: handle_callback reads and clears the link in one step with respect
\* to the other updates of the conversation: when a text message stored a
\* link after a callback query had read the store and before it returned,
\* and nothing was delivered to the conversation since and no add_torrent
\* call took that link, then once both handlers have returned the link is
\* the pending link of the conversation.
C19_LinkPutUnderSelectionSurvives ==
    LET t == done.task
        u == t.user
    IN  (/\ t.kind = "callback" /\ t.putAfterRead
         /\ lastUpd[u].kind = "text" /\ lastUpd[u].link # NoLink
         /\ submitted[u] = 0
         /\ ~\E t2 \in tasks : t2.user = u)
        => user_data[u] = lastUpd[u].link

\* The request of this step is one to /update that passed the secret check.
AuthenticatedUpdate ==
    /\ nUpdates' # nUpdates
    /\ probe' = probe
    /\ ~(secret # <<>> /\ lastReq' # secret)

\* C12: a request to /update that passed the secret check is answered 200
\* "OK" only when its handler has returned; when parsing or processing it
\* raised it is answered 500 with the body "Error", whatever the exception
\* says, and then the listener stays up and the store is as it was; while
\* the handler is suspended nothing is answered.
C12_AnsweredAfterProcessing ==
    [][/\ \A t \in tasks :
             (~\E t2 \in tasks' : t2.id = t.id)
             => \/ /\ lastResp' = [status |-> 200, body |-> "OK"]
                   /\ done'.task.id = t.id
                \/ /\ lastResp' = [status |-> 500, body |-> "Error"]
                   /\ done' = done
                   /\ user_data' = user_data
                   /\ life' = life
       /\ AuthenticatedUpdate
             => \/ /\ \E t \in tasks' : t.id = nUpdates'
                   /\ lastResp' = lastResp
                \/ /\ lastResp' = [status |-> 500, body |-> "Error"]
                   /\ tasks' = tasks
                   /\ user_data' = user_data
                   /\ life' = life]_vars

\* The handler of a callback query raised after its add_torrent call, while
\* both conversations had a pending link: both still have it, the listener
\* is up.
C12_Witness ==
    /\ lastResp = [status |-> 500, body |-> "Error"]
    /\ tasks = {}
    /\ calls = 1
    /\ done.task.kind = "text"
    /\ \A u \in Users : user_data[u] # NoLink
    /\ life.listening

\* The users whose handler is started, resumed or ended by this step.
Acting == {t.user : t \in (tasks \ tasks') \cup (tasks' \ tasks)}

\* C16: a step of the handler of an update of one conversation changes the
\* pending link of no other conversation, and the link of an add_torrent
\* call is the one stored last by a text message of the conversation of
\* the callback query, however the handlers of the conversations interleave.
C16_KeyedIsolation ==
    [][/\ Cardinality(Acting) <= 1
       /\ \A b \in Users : user_data'[b] # user_data[b] => b \in Acting
       /\ \A t2 \in tasks' :
             (t2.pc = "edit_result" /\ \E t \in tasks : t.id = t2.id /\ t.pc = "answer")
             => /\ latest[t2.user] # NoLink
                /\ t2.submits[Len(t2.submits)].magnet = latest[t2.user]]_vars

\* Each conversation has its own link pending, a callback query of one of
\* them has submitted its own while the text of the other is being handled.
C16_Witness ==
    /\ user_data["u1"] = LinkA /\ user_data["u2"] = LinkB
    /\ \E t \in tasks :
          /\ t.user = "u1" /\ t.pc = "edit_result"
          /\ t.submits[1].magnet = LinkA
    /\ \E t \in tasks : t.user = "u2" /\ t.kind = "text" /\ t.overlap = FALSE

\* C20: add_torrent is called only by the handler of a callback query with
\* a "download:" payload, of a conversation for which an earlier text
\* message stored a link; the handler of a text message, of a command, of
\* a callback query with another payload, and a GET /healthz or /status
\* never call it.
C20_SubmitOnlyFromValidSelection ==
    [][/\ calls' # calls
             => /\ calls' = calls + 1
                /\ probe' = probe
                /\ \E t \in tasks :
                      /\ t.kind = "callback" /\ ValidPayload(t.data)
                      /\ latest[t.user] # NoLink
                      /\ \E t2 \in tasks' :
                            /\ t2.id = t.id
                            /\ Len(t2.submits) = Len(t.submits) + 1
       /\ \A t \in tasks' :
             (t.kind # "callback" \/ ~ValidPayload(t.data)) => t.submits = <<>>]_vars

\* One add_torrent call, of a callback query on the second button, then a
\* GET /status as the third request.
C20_Witness ==
    /\ calls = 1
    /\ probe.op = "status_page" /\ probe.id = 3
    /\ done.task.kind = "callback" /\ done.task.pick = 2
    /\ Len(done.task.submits) = 1

====
